---- MODULE Spec2Model ----
(***************************************************************************)
(* A model of the task scheduler of MAC-automation-suite                   *)
(* (src/scheduler.py): the TaskScheduler object, the run_scheduler loop,   *)
(* the four jobs, the run history ledger and the shutdown flag.            *)
(*                                                                         *)
(* Time is counted in seconds since midnight of day 0.  The rules kept by  *)
(* the `schedule` package are modelled by what its Job class does: a rule  *)
(* holds a period, an optional time of day, last_run and next_run; a rule  *)
(* is due when now >= next_run; run_pending runs the due rules in          *)
(* ascending next_run order.                                               *)
(***************************************************************************)
EXTENDS Integers, Sequences, FiniteSets, TLC

VARIABLES
    config,          \* self.config / self.scheduler_config (the options read)
    task_history,    \* self.task_history
    running,         \* self.running
    shutdown_flag,   \* the module-level threading.Event
    jobs,            \* schedule.jobs: the registered rules, in registration order
    now,             \* the wall clock, seconds
    pc,              \* where the thread that called run_scheduler stands
    pending,         \* run_pending: due rules (indexes in jobs) not yet run
    collab,          \* what the collaborator called by the current job returned
    history_file,    \* content of the history file
    ticks,           \* loop iterations started
    faults,          \* collaborator and I/O failures injected so far
    all_entries,     \* every entry ever passed to log_task_execution, in order
    flush_log,       \* every save_task_history call: who called it, ledger length
    sig,             \* the first shutdown request: where the loop stood
    due_tick,        \* tasks found due by the last run_pending
    ran_tick,        \* tasks whose job function returned in the last run_pending
    job_runs,        \* job function invocations that have returned
    exit_cause,      \* why the loop was left: loop_exit, interrupt, setup_error
    registered_at,   \* the clock when setup_scheduled_tasks ran
    report_data,     \* email_report_task: the last output of generate_task_report
    config_file      \* what the configuration path names when the object is built

vars == << config, task_history, running, shutdown_flag, jobs, now, pc, pending,
           collab, history_file, ticks, faults, all_entries,
           flush_log, sig, due_tick, ran_tick, job_runs, exit_cause,
           registered_at, report_data, config_file >>

-----------------------------------------------------------------------------
(* Program constants *)

HistoryCap == 100
FlushEvery == 50
BackoffSeconds == 10
DefaultCheckInterval == 60
CpuThreshold == 80
MemThreshold == 85
DiskThreshold == 90

MinuteSeconds == 60
HourSeconds == 60 * MinuteSeconds
DaySeconds == 24 * HourSeconds
WeekSeconds == 7 * DaySeconds

(* Bounds of the model *)

MaxTicks == 2
MaxFaults == 1
MaxCadenceTicks == 7

-----------------------------------------------------------------------------
(* Values *)

Absent == "<absent>"
AbsentInt == -1
Never == -1
NoAt == -1
NoCollab == [kind |-> "idle", err |-> "", cpu |-> 0, mem |-> 0, disk |-> 0, n |-> 0]
NoFile == [state |-> "missing", entries |-> << >>]
NoSig == [pc |-> "none", len |-> 0, flushes |-> 0, by |-> "none"]

Min(a, b) == IF a < b THEN a ELSE b

Details(fmt, err, vals) == [fmt |-> fmt, err |-> err, vals |-> vals]

Entry(t, task, status, details) ==
    [timestamp |-> t, task |-> task, status |-> status, details |-> details]

-----------------------------------------------------------------------------
(* TaskScheduler.__init__: option lookups with their defaults *)

Get(c, key, default) == IF c[key] = Absent THEN default ELSE c[key]

check_interval(c) ==
    IF c.check_interval = AbsentInt THEN DefaultCheckInterval ELSE c.check_interval

\* check intervals of the runs that follow one rule over several of its periods
CadenceIntervals ==
    {5 * MinuteSeconds, 7 * MinuteSeconds, 10 * MinuteSeconds,
     8 * HourSeconds, 16 * HourSeconds}

\* the number of loop iterations explored for a configuration
TickLimit(c) ==
    IF c.check_interval \in CadenceIntervals THEN MaxCadenceTicks ELSE MaxTicks

-----------------------------------------------------------------------------
(* log_task_execution: append, then keep only the last 100 entries *)

LastN(s, n) == IF Len(s) > n THEN SubSeq(s, Len(s) - n + 1, Len(s)) ELSE s

\* log_task_execution without the truncation
log_task_execution_NoTruncate(h, t, task, status, details) ==
    Append(h, Entry(t, task, status, details))

\* log_task_execution truncating with [:100] instead of [-100:]
log_task_execution_KeepFirst(h, t, task, status, details) ==
    LET appended == Append(h, Entry(t, task, status, details))
    IN  IF Len(appended) > HistoryCap THEN SubSeq(appended, 1, HistoryCap) ELSE appended

\* log_task_execution inserting the new entry at the front
log_task_execution_Prepend(h, t, task, status, details) ==
    LET inserted == << Entry(t, task, status, details) >> \o h
    IN  IF Len(inserted) > HistoryCap THEN LastN(inserted, HistoryCap) ELSE inserted

\* log_task_execution overwriting the status of the entry before the new one
log_task_execution_Supersede(h, t, task, status, details) ==
    LET marked == IF h = << >> THEN h
                  ELSE [h EXCEPT ![Len(h)] = [@ EXCEPT !.status = "SUPERSEDED"]]
        appended == Append(marked, Entry(t, task, status, details))
    IN  IF Len(appended) > HistoryCap THEN LastN(appended, HistoryCap) ELSE appended

log_task_execution(h, t, task, status, details) ==
    LET appended == Append(h, Entry(t, task, status, details))
    IN  IF Len(appended) > HistoryCap THEN LastN(appended, HistoryCap) ELSE appended

-----------------------------------------------------------------------------
(* The rules of the schedule package, as setup_scheduled_tasks uses them.   *)
(* every(n).<unit>[.at(hh:mm)].do(f) appends a rule that has never run and  *)
(* whose next_run is computed from the clock at registration.               *)

TimeOfDay(t) == t % DaySeconds

Day(t) == t \div DaySeconds

\* a next_run that lets a rule that has never run be due at once
NextRun_Immediate(period, at, last_run, t) ==
    IF last_run = Never THEN t
    ELSE IF at = NoAt THEN t + period
    ELSE ((t + period) \div DaySeconds) * DaySeconds + at

\* a next_run that replaces the time of day on the current day
NextRun_ReplaceToday(period, at, last_run, t) ==
    IF at = NoAt THEN t + period ELSE Day(t) * DaySeconds + at

\* Job._schedule_next_run: now + period; with an at-time the time of day is
\* replaced, and a rule that has not run yet (or ran more than a period before
\* the candidate) still runs today when the at-time is still ahead.
NextRun(period, at, last_run, t) ==
    IF at = NoAt
    THEN t + period
    ELSE LET cand == ((t + period) \div DaySeconds) * DaySeconds + at
         IN  IF (last_run = Never \/ cand - last_run > period) /\ at > TimeOfDay(t)
             THEN cand - DaySeconds
             ELSE cand

Rule(task, period, at, t) ==
    [task |-> task, period |-> period, at |-> at, last_run |-> Never,
     next_run |-> NextRun(period, at, Never, t)]

\* Job.should_run
should_run(job, t) == t >= job.next_run

\* a rescheduling that counts the period from the planned run, not from the run
Rescheduled_FromPlan(job, t) ==
    [job EXCEPT !.last_run = t, !.next_run = job.next_run + job.period]

\* Job.run, the bookkeeping around the job function: last_run and next_run
Rescheduled(job, t) ==
    [job EXCEPT !.last_run = t, !.next_run = NextRun(job.period, job.at, t, t)]

\* Scheduler.run_pending: sorted(job for job in jobs if job.should_run); the
\* order is by next_run, and Python's sort keeps registration order on ties.
DueIndexes(js, t) == {i \in 1..Len(js) : should_run(js[i], t)}

Earliest(js, S) ==
    CHOOSE i \in S : \A k \in S :
        \/ js[i].next_run < js[k].next_run
        \/ (js[i].next_run = js[k].next_run /\ i <= k)

RECURSIVE SortedBy(_, _)
SortedBy(js, S) ==
    IF S = {} THEN << >>
    ELSE LET i == Earliest(js, S) IN << i >> \o SortedBy(js, S \ {i})

\* a run_pending that takes every due rule twice
SortedDue_Twice(js, t) == SortedBy(js, DueIndexes(js, t)) \o SortedBy(js, DueIndexes(js, t))

SortedDue(js, t) == SortedBy(js, DueIndexes(js, t))

-----------------------------------------------------------------------------
(* setup_scheduled_tasks: one if/elif chain per job slot, in source order.  *)
(* A slot whose option matches no branch registers nothing.                 *)

ScrapingSlot(c, js, t) ==
    LET s == Get(c, "scraping_schedule", "hourly")
    IN  IF s = "hourly" THEN Append(js, Rule("web_scraping", HourSeconds, NoAt, t))
        ELSE IF s = "daily"
             THEN Append(js, Rule("web_scraping", DaySeconds, 9 * HourSeconds, t))
        ELSE IF s = "weekly" THEN Append(js, Rule("web_scraping", WeekSeconds, NoAt, t))
        ELSE js

MonitoringSlot(c, js, t) ==
    LET s == Get(c, "monitoring_schedule", "every_30_minutes")
    IN  IF s = "every_15_minutes"
        THEN Append(js, Rule("system_monitoring", 15 * MinuteSeconds, NoAt, t))
        ELSE IF s = "every_30_minutes"
             THEN Append(js, Rule("system_monitoring", 30 * MinuteSeconds, NoAt, t))
        ELSE IF s = "hourly"
             THEN Append(js, Rule("system_monitoring", HourSeconds, NoAt, t))
        ELSE js

OrganizationSlot(c, js, t) ==
    LET s == Get(c, "organization_schedule", "daily")
    IN  IF s = "daily"
        THEN Append(js, Rule("file_organization", DaySeconds, 2 * HourSeconds, t))
        ELSE IF s = "weekly"
             THEN Append(js, Rule("file_organization", WeekSeconds, NoAt, t))
        ELSE js

EmailSlot(c, js, t) ==
    LET s == Get(c, "email_schedule", "daily")
    IN  IF s = "daily"
        THEN Append(js, Rule("email_report", DaySeconds, 8 * HourSeconds, t))
        ELSE IF s = "weekly" THEN Append(js, Rule("email_report", WeekSeconds, NoAt, t))
        ELSE js

\* the first k slots of setup_scheduled_tasks (k = 4: the whole function)
SetupSlots(c, js, t, k) ==
    LET j1 == IF k >= 1 THEN ScrapingSlot(c, js, t) ELSE js
        j2 == IF k >= 2 THEN MonitoringSlot(c, j1, t) ELSE j1
        j3 == IF k >= 3 THEN OrganizationSlot(c, j2, t) ELSE j2
    IN  IF k >= 4 THEN EmailSlot(c, j3, t) ELSE j3

\* a setup that stops after the organization slot
setup_scheduled_tasks_NoEmail(c, js, t) == SetupSlots(c, js, t, 3)

setup_scheduled_tasks(c, js, t) == SetupSlots(c, js, t, 4)

-----------------------------------------------------------------------------
(* What the collaborators can answer.  kind: data/none/raise for scrape_site,*)
(* stats/none/raise for SystemMonitor, missing/nofunc/ok/raise for the       *)
(* organize module, not_called/ok/raise for send_email.  scrape_site catches *)
(* its request errors, logs them and returns None: err of its none answer   *)
(* is the failure it logged.                                                *)

ErrorTexts == {"network timeout"}

Answer(kind, err, cpu, mem, disk, n) ==
    [kind |-> kind, err |-> err, cpu |-> cpu, mem |-> mem, disk |-> disk, n |-> n]

Raises == {Answer("raise", e, 0, 0, 0, 0) : e \in ErrorTexts}

StatSamples ==
    {Answer("stats", "", s[1], s[2], s[3], 0) :
        s \in {<<CpuThreshold, MemThreshold, DiskThreshold>>,
               <<CpuThreshold + 1, MemThreshold, DiskThreshold + 1>>,
               <<CpuThreshold, MemThreshold + 1, DiskThreshold>>,
               <<CpuThreshold + 1, MemThreshold + 1, DiskThreshold + 1>>}}

Answers(task, c) ==
    IF task = "web_scraping"
    THEN {Answer("data", "", 0, 0, 0, 3)}
         \cup {Answer("none", e, 0, 0, 0, 0) : e \in ErrorTexts} \cup Raises
    ELSE IF task = "system_monitoring"
    THEN StatSamples \cup {Answer("none", "", 0, 0, 0, 0)} \cup Raises
    ELSE IF task = "file_organization"
    THEN {Answer(k, "", 0, 0, 0, 0) : k \in {"ok", "nofunc", "missing"}} \cup Raises
    ELSE IF c.email_complete
         THEN {Answer("ok", "", 0, 0, 0, 0)} \cup Raises
         ELSE {Answer("not_called", "", 0, 0, 0, 0)}

\* answers that are failures of the environment, counted against MaxFaults
IsFault(r) == r.kind \in {"none", "raise", "nofunc", "missing"}

-----------------------------------------------------------------------------
(* The four job functions: the ledger after the job, given the ledger       *)
(* before, the clock and the collaborator's answer.  Every except clause    *)
(* of a job ends in one ERROR entry carrying str(e).  The notification mail *)
(* web_scraping_task sends after a success catches its own exceptions and   *)
(* records nothing; in file_organization_task the collaborator is called    *)
(* under the inner try, whose except clause records the ERROR entry.        *)

\* an except clause that logs to the logger only
JobError_Swallow(h, t, task, r) == h

JobError(h, t, task, r) ==
    log_task_execution(h, t, task, "ERROR", Details("{e}", r.err, << >>))

web_scraping_task(h, t, r) ==
    IF r.kind = "raise" THEN JobError(h, t, "web_scraping", r)
    ELSE IF r.kind = "data"
    THEN log_task_execution(h, t, "web_scraping", "SUCCESS",
                            Details("Scraped {n} headings from {url}", "", << r.n >>))
    ELSE log_task_execution(h, t, "web_scraping", "FAILED",
                            Details("Failed to scrape website", "", << >>))

\* the monitoring job with thresholds that include the limit itself
system_monitoring_task_AtThreshold(h, t, r) ==
    IF r.kind = "raise" THEN JobError(h, t, "system_monitoring", r)
    ELSE IF r.kind = "stats"
    THEN LET h1 == IF r.cpu >= CpuThreshold
                   THEN log_task_execution(h, t, "system_monitoring", "WARNING",
                                           Details("High CPU usage: {cpu}%", "", << r.cpu >>))
                   ELSE h
             h2 == IF r.mem >= MemThreshold
                   THEN log_task_execution(h1, t, "system_monitoring", "WARNING",
                                           Details("High memory usage: {mem}%", "", << r.mem >>))
                   ELSE h1
             h3 == IF r.disk >= DiskThreshold
                   THEN log_task_execution(h2, t, "system_monitoring", "CRITICAL",
                                           Details("High disk usage: {disk}%", "", << r.disk >>))
                   ELSE h2
         IN  log_task_execution(h3, t, "system_monitoring", "SUCCESS",
                                Details("CPU: {cpu}%, Mem: {mem}%, Disk: {disk}%", "",
                                        << r.cpu, r.mem, r.disk >>))
    ELSE log_task_execution(h, t, "system_monitoring", "FAILED",
                            Details("Could not get system stats", "", << >>))

\* the monitoring job recording the sample before what it derives from it
system_monitoring_task_SampleFirst(h, t, r) ==
    IF r.kind = "raise" THEN JobError(h, t, "system_monitoring", r)
    ELSE IF r.kind = "stats"
    THEN LET h0 == log_task_execution(h, t, "system_monitoring", "SUCCESS",
                                      Details("CPU: {cpu}%, Mem: {mem}%, Disk: {disk}%", "",
                                              << r.cpu, r.mem, r.disk >>))
             h1 == IF r.cpu > CpuThreshold
                   THEN log_task_execution(h0, t, "system_monitoring", "WARNING",
                                           Details("High CPU usage: {cpu}%", "", << r.cpu >>))
                   ELSE h0
             h2 == IF r.mem > MemThreshold
                   THEN log_task_execution(h1, t, "system_monitoring", "WARNING",
                                           Details("High memory usage: {mem}%", "", << r.mem >>))
                   ELSE h1
         IN  IF r.disk > DiskThreshold
             THEN log_task_execution(h2, t, "system_monitoring", "CRITICAL",
                                     Details("High disk usage: {disk}%", "", << r.disk >>))
             ELSE h2
    ELSE log_task_execution(h, t, "system_monitoring", "FAILED",
                            Details("Could not get system stats", "", << >>))

system_monitoring_task(h, t, r) ==
    IF r.kind = "raise" THEN JobError(h, t, "system_monitoring", r)
    ELSE IF r.kind = "stats"
    THEN LET h1 == IF r.cpu > CpuThreshold
                   THEN log_task_execution(h, t, "system_monitoring", "WARNING",
                                           Details("High CPU usage: {cpu}%", "", << r.cpu >>))
                   ELSE h
             h2 == IF r.mem > MemThreshold
                   THEN log_task_execution(h1, t, "system_monitoring", "WARNING",
                                           Details("High memory usage: {mem}%", "", << r.mem >>))
                   ELSE h1
             h3 == IF r.disk > DiskThreshold
                   THEN log_task_execution(h2, t, "system_monitoring", "CRITICAL",
                                           Details("High disk usage: {disk}%", "", << r.disk >>))
                   ELSE h2
         IN  log_task_execution(h3, t, "system_monitoring", "SUCCESS",
                                Details("CPU: {cpu}%, Mem: {mem}%, Disk: {disk}%", "",
                                        << r.cpu, r.mem, r.disk >>))
    ELSE log_task_execution(h, t, "system_monitoring", "FAILED",
                            Details("Could not get system stats", "", << >>))

file_organization_task(h, t, r) ==
    IF r.kind = "missing"
    THEN log_task_execution(h, t, "file_organization", "SKIPPED",
                            Details("organize.py not found", "", << >>))
    ELSE IF r.kind = "nofunc"
    THEN log_task_execution(h, t, "file_organization", "SKIPPED",
                            Details("No organize function found", "", << >>))
    ELSE IF r.kind = "raise"
    THEN log_task_execution(h, t, "file_organization", "ERROR",
                            Details("Error importing organize module: {e}", r.err, << >>))
    ELSE log_task_execution(h, t, "file_organization", "SUCCESS",
                            Details("Organized files in {source_dir}", "", << >>))

\* an email job that returns without recording when the account is not configured
email_report_task_SilentSkip(h, t, r) ==
    IF r.kind = "not_called" THEN h
    ELSE IF r.kind = "raise" THEN JobError(h, t, "email_report", r)
    ELSE log_task_execution(h, t, "email_report", "SUCCESS",
                            Details("Report email sent", "", << >>))

\* an email job that records its success before the mail is sent
email_report_task_LogBeforeSend(h, t, r) ==
    IF r.kind = "not_called"
    THEN log_task_execution(h, t, "email_report", "SKIPPED",
                            Details("Email configuration incomplete", "", << >>))
    ELSE LET logged == log_task_execution(h, t, "email_report", "SUCCESS",
                                          Details("Report email sent", "", << >>))
         IN  IF r.kind = "raise" THEN JobError(logged, t, "email_report", r) ELSE logged

email_report_task(h, t, r) ==
    IF r.kind = "not_called"
    THEN log_task_execution(h, t, "email_report", "SKIPPED",
                            Details("Email configuration incomplete", "", << >>))
    ELSE IF r.kind = "raise" THEN JobError(h, t, "email_report", r)
    ELSE log_task_execution(h, t, "email_report", "SUCCESS",
                            Details("Report email sent", "", << >>))

\* the job function a rule was registered with
job_func(task, h, t, r) ==
    IF task = "web_scraping" THEN web_scraping_task(h, t, r)
    ELSE IF task = "system_monitoring" THEN system_monitoring_task(h, t, r)
    ELSE IF task = "file_organization" THEN file_organization_task(h, t, r)
    ELSE email_report_task(h, t, r)

\* the entries a job passes to log_task_execution, in order (for all_entries)
Recorded(task, t, r) == job_func(task, << >>, t, r)

-----------------------------------------------------------------------------
(* generate_task_report: the three counts over the whole ledger and, for    *)
(* each of the last 10 entries, a line "timestamp - task: status" followed  *)
(* by a line "  Details: ..." when the details are not empty.               *)

NoDetails == Details("", "", << >>)

\* bool(details) of the text a Details value stands for
Truthy(d) == IF d.fmt = "{e}" THEN d.err # "" ELSE d.fmt # ""

EntryLine(e) ==
    [kind |-> "entry", timestamp |-> e.timestamp, task |-> e.task,
     status |-> e.status, details |-> NoDetails]

DetailsLine(e) ==
    [kind |-> "details", timestamp |-> Never, task |-> "", status |-> "",
     details |-> e.details]

RECURSIVE ReportLines(_)
ReportLines(es) ==
    IF es = << >> THEN << >>
    ELSE (IF Truthy(Head(es).details)
          THEN << EntryLine(Head(es)), DetailsLine(Head(es)) >>
          ELSE << EntryLine(Head(es)) >>) \o ReportLines(Tail(es))

CountOf(h, statuses) == Cardinality({k \in 1..Len(h) : h[k].status \in statuses})

ReportWindow == 10

\* a report that counts as failed whatever did not succeed
generate_task_report_NotSuccess(h) ==
    [total |-> Len(h),
     successful |-> CountOf(h, {"SUCCESS"}),
     failed |-> Len(h) - CountOf(h, {"SUCCESS"}),
     lines |-> ReportLines(LastN(h, ReportWindow))]

generate_task_report(h) ==
    [total |-> Len(h),
     successful |-> CountOf(h, {"SUCCESS"}),
     failed |-> CountOf(h, {"FAILED", "ERROR"}),
     lines |-> ReportLines(LastN(h, ReportWindow))]

NoReport == [total |-> 0, successful |-> 0, failed |-> 0, lines |-> << >>]

-----------------------------------------------------------------------------
(* save_task_history: open the file for writing and dump the ledger; any    *)
(* exception is logged and swallowed.  open() truncates before the dump.    *)

FlushResults == {"ok", "open_fails", "write_fails"}

\* json.dump of one entry: an object of four members, in the key order of the dict
JsonObject(e) ==
    << << "timestamp", e.timestamp >>, << "task", e.task >>,
       << "status", e.status >>, << "details", e.details >> >>

\* a dump that writes the listing window only
json_dump_Window(h) == [k \in 1..Len(LastN(h, ReportWindow)) |->
                           JsonObject(LastN(h, ReportWindow)[k])]

\* json.dump(self.task_history, f): an array of objects, in ledger order
json_dump(h) == [k \in 1..Len(h) |-> JsonObject(h[k])]

\* the value of a member of a parsed object: task['timestamp'], task.get('details')
Member(obj, key) == obj[CHOOSE i \in 1..Len(obj) : obj[i][1] = key][2]

\* json.load(f) of show_task_history: a list of dicts with the four keys
json_load(doc) ==
    [k \in 1..Len(doc) |->
        Entry(Member(doc[k], "timestamp"), Member(doc[k], "task"),
              Member(doc[k], "status"), Member(doc[k], "details"))]

\* a save that opens the file for appending
save_task_history_Append(h, file, result) ==
    IF result = "ok"
    THEN [state |-> "written", entries |-> file.entries \o json_dump(h)]
    ELSE IF result = "write_fails" THEN [state |-> "partial", entries |-> << >>]
    ELSE file

save_task_history(h, file, result) ==
    IF result = "ok" THEN [state |-> "written", entries |-> json_dump(h)]
    ELSE IF result = "write_fails" THEN [state |-> "partial", entries |-> << >>]
    ELSE file

\* the periodic flush condition without the modulo test
PeriodicFlushDue_AnyLength(h) == Len(h) > 0

\* the periodic flush condition of the loop
PeriodicFlushDue(h) == Len(h) % FlushEvery = 0 /\ Len(h) > 0

-----------------------------------------------------------------------------
(* Initial states: a TaskScheduler right after construction.                *)

Config(s, m, o, e, ci, ec) ==
    [scraping_schedule |-> s, monitoring_schedule |-> m, organization_schedule |-> o,
     email_schedule |-> e, check_interval |-> ci, email_complete |-> ec,
     history_file |-> Absent]

ScrapingOptions == {Absent, "hourly", "daily", "weekly", "monthly"}
MonitoringOptions == {Absent, "every_15_minutes", "every_30_minutes", "hourly", "monthly"}
OrganizationOptions == {Absent, "daily", "weekly", "monthly"}
EmailOptions == {Absent, "daily", "weekly", "monthly"}

\* the schedule options: at most one of them differs from "not given", or none is
\* a recognized name
ScheduleChoices ==
    {q \in ScrapingOptions \X MonitoringOptions \X OrganizationOptions \X EmailOptions :
        \/ Cardinality({i \in 1..4 : q[i] # Absent}) <= 1
        \/ \A i \in 1..4 : q[i] = "monthly"}

\* every choice of schedule options with the default check interval, and the
\* default schedule with a check interval of one hour
Configs ==
    {Config(q[1], q[2], q[3], q[4], AbsentInt, ec) :
        q \in ScheduleChoices, ec \in BOOLEAN}
    \cup {Config(Absent, Absent, Absent, Absent, HourSeconds, ec) : ec \in BOOLEAN}

\* 01:30 and 07:30 of day 0
StartTimes == {HourSeconds + 30 * MinuteSeconds, 7 * HourSeconds + 30 * MinuteSeconds}

\* a configuration file holding the mapping c
MappingFile(c) == [kind |-> "mapping", content |-> c]

InitWith(c, t, prior) ==
    /\ config = c
    /\ config_file = MappingFile(c)
    /\ task_history = LastN(prior, HistoryCap)
    /\ all_entries = prior
    /\ running = FALSE
    /\ shutdown_flag = FALSE
    /\ jobs = << >>
    /\ now = t
    /\ pc = "constructed"
    /\ pending = << >>
    /\ collab = NoCollab
    /\ history_file = NoFile
    /\ ticks = 0
    /\ faults = 0
    /\ flush_log = << >>
    /\ sig = NoSig
    /\ due_tick = << >>
    /\ ran_tick = << >>
    /\ job_runs = Len(prior)
    /\ exit_cause = "none"
    /\ registered_at = Never
    /\ report_data = NoReport

Init == \E c \in Configs, t \in StartTimes : InitWith(c, t, << >>)

\* A scheduler whose ledger already holds the entries of n earlier calls of its
\* system_monitoring_task method on a healthy system: one SUCCESS entry each,
\* one second apart from 00:00:01 of day 0 on.
PriorLog(n) ==
    [i \in 1..n |->
        Entry(i, "system_monitoring", "SUCCESS",
              Details("CPU: {cpu}%, Mem: {mem}%, Disk: {disk}%", "",
                      << CpuThreshold, MemThreshold, DiskThreshold >>))]

\* ledger lengths next to the flush period and to the cap
PriorCounts ==
    {FlushEvery - 1, FlushEvery, HistoryCap - 1, HistoryCap, HistoryCap + FlushEvery - 1}

\* with the default check interval nothing comes due within the ticks modelled and
\* every length is tried; with a check interval of one hour the jobs run, from just
\* below the report window and just below the cap
LongStarts ==
    {<< AbsentInt, n >> : n \in PriorCounts}
    \cup {<< HourSeconds, n >> : n \in {ReportWindow - 2, HistoryCap - 1}}

\* just below the cap only the monitoring job has a cadence (the other three
\* options name none); elsewhere the schedule is the default
LongOption(q) == IF q = << HourSeconds, HistoryCap - 1 >> THEN "monthly" ELSE Absent

\* the e-mail account is configured, or not, in the start where the jobs run
\* from below the report window
InitLong ==
    \E q \in LongStarts, ec \in BOOLEAN :
        /\ ec => (q[1] = HourSeconds /\ q[2] < ReportWindow)
        /\ InitWith(Config(LongOption(q), Absent, LongOption(q), LongOption(q), q[1], ec),
                    7 * HourSeconds + 30 * MinuteSeconds, PriorLog(q[2]))

\* A scheduler configured with a recognized cadence name for one or two slots
\* (the other options name no cadence, so their slots register nothing) and a
\* check interval that lands on the rules' trigger points:
\* <<slots, name, interval, start>>.  Daily rules are checked every 8 hours from
\* a start 16 hours before the at-time of day 1, and every 16 hours from 08:59
\* (the organization and email rules together then come due in the same ticks);
\* the every-N-minutes rules every 5, 7 and 10 minutes.
CadenceStarts ==
    {<< {1}, "daily", 8 * HourSeconds, 17 * HourSeconds >>,
     << {1}, "daily", 16 * HourSeconds, 9 * HourSeconds - MinuteSeconds >>,
     << {3}, "daily", 8 * HourSeconds, 10 * HourSeconds >>,
     << {4}, "daily", 8 * HourSeconds, 16 * HourSeconds >>,
     << {3, 4}, "daily", 16 * HourSeconds, 9 * HourSeconds - MinuteSeconds >>,
     << {2}, "every_15_minutes", 5 * MinuteSeconds, 7 * HourSeconds + 30 * MinuteSeconds >>,
     << {2}, "every_15_minutes", 7 * MinuteSeconds, 7 * HourSeconds + 30 * MinuteSeconds >>,
     << {2}, "every_30_minutes", 10 * MinuteSeconds, 7 * HourSeconds + 30 * MinuteSeconds >>}

CadenceOption(q, slot) == IF slot \in q[1] THEN q[2] ELSE "monthly"

InitCadence ==
    \E q \in CadenceStarts, ec \in BOOLEAN :
        InitWith(Config(CadenceOption(q, 1), CadenceOption(q, 2), CadenceOption(q, 3),
                        CadenceOption(q, 4), q[3], ec),
                 q[4], << >>)

-----------------------------------------------------------------------------
(* start_scheduler: TaskScheduler(config_path), then run_scheduler()        *)

\* the empty mapping: no option given
EmptyConfig == Config(Absent, Absent, Absent, Absent, AbsentInt, FALSE)

\* no TaskScheduler object yet
Unconstructed ==
    [scraping_schedule |-> "<unset>", monitoring_schedule |-> "<unset>",
     organization_schedule |-> "<unset>", email_schedule |-> "<unset>",
     check_interval |-> 0, email_complete |-> FALSE, history_file |-> "<unset>"]

\* What the path names: no file; a file that is not YAML; a YAML mapping; an
\* empty file; a YAML scalar; a file that cannot be opened for reading.
FileKinds == {"missing", "malformed", "mapping", "empty", "scalar", "unreadable"}

Loaded(kind, value) == [kind |-> kind, value |-> value]

\* a load_config that answers every failure with the empty mapping
load_config_CatchAll(file) ==
    IF file.kind = "mapping" THEN Loaded("dict", file.content)
    ELSE Loaded("dict", EmptyConfig)

\* a load_config that lets every failure out
load_config_NoCatch(file) ==
    IF file.kind = "mapping" THEN Loaded("dict", file.content)
    ELSE IF file.kind = "empty" THEN Loaded("None", Unconstructed)
    ELSE IF file.kind = "scalar" THEN Loaded("str", Unconstructed)
    ELSE Loaded("raise", Unconstructed)

\* load_config: FileNotFoundError and yaml.YAMLError give {}; any other error of
\* open or read leaves the method; otherwise the value yaml.safe_load returns
load_config(file) ==
    IF file.kind \in {"missing", "malformed"} THEN Loaded("dict", EmptyConfig)
    ELSE IF file.kind = "mapping" THEN Loaded("dict", file.content)
    ELSE IF file.kind = "empty" THEN Loaded("None", Unconstructed)
    ELSE IF file.kind = "scalar" THEN Loaded("str", Unconstructed)
    ELSE Loaded("raise", Unconstructed)

\* save_task_history: the name of the history file
history_file_name(c) == Get(c, "history_file", "task_history.json")

\* TaskScheduler.__init__ in start_scheduler's try: load_config, then .get on the
\* value loaded, which only a mapping has; an exception is logged by
\* start_scheduler and ends the process with sys.exit(1)
Construct ==
    /\ pc = "start"
    /\ LET loaded == load_config(config_file)
       IN  IF loaded.kind = "dict"
           THEN /\ config' = loaded.value
                /\ pc' = "constructed"
                /\ exit_cause' = exit_cause
           ELSE /\ config' = config
                /\ pc' = "exited"
                /\ exit_cause' = "construct_error"
    /\ task_history' = << >>
    /\ running' = FALSE
    /\ UNCHANGED << config_file, report_data, shutdown_flag, jobs, now, pending, collab,
                    history_file, ticks, faults, all_entries, flush_log, sig,
                    due_tick, ran_tick, job_runs, registered_at >>

-----------------------------------------------------------------------------
(* run_scheduler *)

Flushed(by, result) ==
    Append(flush_log, [by |-> by, len |-> Len(task_history), result |-> result,
                       recorded |-> Len(all_entries),
                       file |-> history_file_name(config)])

\* a setup that cannot go on when an option names no known cadence
RunSchedulerStart_KnownOnly ==
    /\ pc = "constructed"
    /\ \A key \in {"scraping_schedule", "monitoring_schedule",
                    "organization_schedule", "email_schedule"} : config[key] # "monthly"
    /\ running' = TRUE
    /\ jobs' = setup_scheduled_tasks(config, jobs, now)
    /\ registered_at' = now
    /\ pc' = "loop"
    /\ UNCHANGED << config, config_file, report_data, task_history, shutdown_flag, now,
                    pending, collab, history_file, ticks, faults, all_entries,
                    flush_log, sig, due_tick, ran_tick, job_runs, exit_cause >>

\* self.running = True; self.setup_scheduled_tasks()
RunSchedulerStart ==
    /\ pc = "constructed"
    /\ running' = TRUE
    /\ jobs' = setup_scheduled_tasks(config, jobs, now)
    /\ registered_at' = now
    /\ pc' = "loop"
    /\ UNCHANGED << config, config_file, report_data, task_history, shutdown_flag, now, pending, collab,
                    history_file, ticks, faults, all_entries, flush_log,
                    sig, due_tick, ran_tick,
                    job_runs, exit_cause >>

\* an exception during setup, after k of the four slots: the outer except
SetupRaises ==
    /\ pc = "constructed"
    /\ faults < MaxFaults
    /\ \E k \in 0..3 : jobs' = SetupSlots(config, jobs, now, k)
    /\ registered_at' = now
    /\ running' = TRUE
    /\ faults' = faults + 1
    /\ pc' = "finally"
    /\ exit_cause' = "setup_error"
    /\ UNCHANGED << config, config_file, report_data, task_history, shutdown_flag, now, pending, collab,
                    history_file, ticks, all_entries, flush_log, sig,
                    due_tick, ran_tick,
                    job_runs >>

\* a loop condition that tests self.running only
LoopCheck_RunningOnly ==
    /\ pc = "loop"
    /\ IF running
       THEN /\ ticks < TickLimit(config)
            /\ ticks' = ticks + 1
            /\ pc' = "tick"
            /\ UNCHANGED exit_cause
       ELSE /\ ticks' = ticks
            /\ pc' = "finally"
            /\ exit_cause' = "loop_exit"
    /\ UNCHANGED << config, config_file, report_data, task_history, running, shutdown_flag, jobs, now,
                    pending, collab, history_file, faults, all_entries, flush_log,
                    sig, due_tick, ran_tick, job_runs, registered_at >>

\* while not shutdown_flag.is_set() and self.running
LoopCheck ==
    /\ pc = "loop"
    /\ IF ~shutdown_flag /\ running
       THEN /\ ticks < TickLimit(config)
            /\ ticks' = ticks + 1
            /\ pc' = "tick"
            /\ UNCHANGED exit_cause
       ELSE /\ ticks' = ticks
            /\ pc' = "finally"
            /\ exit_cause' = "loop_exit"
    /\ UNCHANGED << config, config_file, report_data, task_history, running, shutdown_flag, jobs, now, pending,
                    collab, history_file, faults, all_entries, flush_log,
                    sig, due_tick, ran_tick,
                    job_runs, registered_at >>

\* schedule.run_pending(): the due-check
RunPending ==
    /\ pc = "tick"
    /\ pending' = SortedDue(jobs, now)
    /\ due_tick' = [k \in 1..Len(pending') |-> jobs[pending'[k]].task]
    /\ ran_tick' = << >>
    /\ pc' = "run_pending"
    /\ UNCHANGED << config, config_file, report_data, task_history, running, shutdown_flag, jobs, now, collab,
                    history_file, ticks, faults, all_entries, flush_log, sig,
                    job_runs, exit_cause, registered_at >>

\* run_pending raises an Exception of its own
RunPendingRaises ==
    /\ pc = "tick"
    /\ faults < MaxFaults
    /\ faults' = faults + 1
    /\ pc' = "except"
    /\ UNCHANGED << config, config_file, report_data, task_history, running, shutdown_flag, jobs, now, pending,
                    collab, history_file, ticks, all_entries, flush_log, sig,
                    due_tick, ran_tick,
                    job_runs, exit_cause, registered_at >>

\* the next due rule's job function is called and its collaborator answers
RunJob ==
    /\ pc = "run_pending"
    /\ pending # << >>
    /\ \E r \in Answers(jobs[Head(pending)].task, config) :
          /\ IsFault(r) => faults < MaxFaults
          /\ faults' = IF IsFault(r) THEN faults + 1 ELSE faults
          /\ collab' = r
          /\ report_data' =
                IF jobs[Head(pending)].task = "email_report" /\ r.kind # "not_called"
                THEN generate_task_report(task_history)
                ELSE report_data
    /\ pc' = "in_job"
    /\ UNCHANGED << config, config_file, task_history, running, shutdown_flag, jobs, now, pending,
                    history_file, ticks, all_entries, flush_log, sig,
                    due_tick, ran_tick,
                    job_runs, exit_cause, registered_at >>

\* a run_pending that gives up its remaining due rules once the flag is set
JobReturns_DropOnFlag ==
    /\ pc = "in_job"
    /\ LET i == Head(pending)
           task == jobs[i].task
       IN  /\ task_history' = job_func(task, task_history, now, collab)
           /\ all_entries' = all_entries \o Recorded(task, now, collab)
           /\ jobs' = [jobs EXCEPT ![i] = Rescheduled(@, now)]
           /\ ran_tick' = Append(ran_tick, task)
           /\ job_runs' = job_runs + 1
    /\ pending' = IF shutdown_flag THEN << >> ELSE Tail(pending)
    /\ collab' = NoCollab
    /\ pc' = "run_pending"
    /\ UNCHANGED << config, config_file, report_data, running, shutdown_flag, now, history_file, ticks, faults,
                    flush_log, sig, due_tick,
                    exit_cause, registered_at >>

\* the job function records its outcome and returns; Job.run reschedules the rule
JobReturns ==
    /\ pc = "in_job"
    /\ LET i == Head(pending)
           task == jobs[i].task
       IN  /\ task_history' = job_func(task, task_history, now, collab)
           /\ all_entries' = all_entries \o Recorded(task, now, collab)
           /\ jobs' = [jobs EXCEPT ![i] = Rescheduled(@, now)]
           /\ ran_tick' = Append(ran_tick, task)
           /\ job_runs' = job_runs + 1
    /\ pending' = Tail(pending)
    /\ collab' = NoCollab
    /\ pc' = "run_pending"
    /\ UNCHANGED << config, config_file, report_data, running, shutdown_flag, now, history_file, ticks, faults,
                    flush_log, sig, due_tick,
                    exit_cause, registered_at >>

\* run_pending returns; time.sleep(self.check_interval) begins
RunPendingReturns ==
    /\ pc = "run_pending"
    /\ pending = << >>
    /\ pc' = "sleep"
    /\ UNCHANGED << config, config_file, report_data, task_history, running, shutdown_flag, jobs, now, pending,
                    collab, history_file, ticks, faults, all_entries,
                    flush_log, sig, due_tick, ran_tick,
                    job_runs, exit_cause, registered_at >>

\* time.sleep(self.check_interval) blocks for the whole interval: a signal
\* handler that returns normally does not shorten it
time_sleep ==
    /\ pc = "sleep"
    /\ now' = now + check_interval(config)
    /\ pc' = "flush_check"
    /\ UNCHANGED << config, config_file, report_data, task_history, running, shutdown_flag, jobs, pending,
                    collab, history_file, ticks, faults, all_entries,
                    flush_log, sig, due_tick, ran_tick,
                    job_runs, exit_cause, registered_at >>

\* time.sleep raises an Exception
SleepRaises ==
    /\ pc = "sleep"
    /\ faults < MaxFaults
    /\ faults' = faults + 1
    /\ pc' = "except"
    /\ UNCHANGED << config, config_file, report_data, task_history, running, shutdown_flag, jobs, now, pending,
                    collab, history_file, ticks, all_entries, flush_log, sig,
                    due_tick, ran_tick,
                    job_runs, exit_cause, registered_at >>

\* a periodic flush whose failure leaves save_task_history as an exception
FlushCheck_FailureRaises ==
    /\ pc = "flush_check"
    /\ IF PeriodicFlushDue(task_history)
       THEN \E res \in FlushResults :
               /\ res # "ok" => faults < MaxFaults
               /\ faults' = IF res # "ok" THEN faults + 1 ELSE faults
               /\ history_file' = save_task_history(task_history, history_file, res)
               /\ flush_log' = Flushed("periodic", res)
               /\ pc' = IF res = "ok" THEN "loop" ELSE "except"
       ELSE UNCHANGED << faults, history_file, flush_log >> /\ pc' = "loop"
    /\ UNCHANGED << config, config_file, report_data, task_history, running, shutdown_flag, jobs, now,
                    pending, collab, ticks, all_entries, sig, due_tick, ran_tick,
                    job_runs, exit_cause, registered_at >>

\* a periodic flush that empties the ledger once it is written
FlushCheck_ClearsLedger ==
    /\ pc = "flush_check"
    /\ IF PeriodicFlushDue(task_history)
       THEN \E res \in FlushResults :
               /\ res # "ok" => faults < MaxFaults
               /\ faults' = IF res # "ok" THEN faults + 1 ELSE faults
               /\ history_file' = save_task_history(task_history, history_file, res)
               /\ flush_log' = Flushed("periodic", res)
               /\ task_history' = IF res = "ok" THEN << >> ELSE task_history
       ELSE UNCHANGED << faults, history_file, flush_log, task_history >>
    /\ pc' = "loop"
    /\ UNCHANGED << config, config_file, report_data, running, shutdown_flag, jobs, now,
                    pending, collab, ticks, all_entries, sig, due_tick, ran_tick,
                    job_runs, exit_cause, registered_at >>

\* if len(self.task_history) % 50 == 0 and len(self.task_history) > 0: save
FlushCheck ==
    /\ pc = "flush_check"
    /\ IF PeriodicFlushDue(task_history)
       THEN \E res \in FlushResults :
               /\ res # "ok" => faults < MaxFaults
               /\ faults' = IF res # "ok" THEN faults + 1 ELSE faults
               /\ history_file' = save_task_history(task_history, history_file, res)
               /\ flush_log' = Flushed("periodic", res)
       ELSE UNCHANGED << faults, history_file, flush_log >>
    /\ pc' = "loop"
    /\ UNCHANGED << config, config_file, report_data, task_history, running, shutdown_flag, jobs, now, pending,
                    collab, ticks, all_entries, sig, due_tick, ran_tick,
                    job_runs, exit_cause, registered_at >>

\* the loop body's exception reaching the outer handler instead
LoopExcept_Propagate ==
    /\ pc = "except"
    /\ pc' = "finally"
    /\ exit_cause' = "loop_error"
    /\ UNCHANGED << config, config_file, report_data, task_history, running, shutdown_flag, jobs, now, pending,
                    collab, history_file, ticks, faults, all_entries, flush_log, sig,
                    due_tick, ran_tick, job_runs, registered_at >>

\* an except clause that waits whether or not shutdown was requested
LoopExcept_AlwaysBackoff ==
    /\ pc = "except"
    /\ pc' = "backoff"
    /\ UNCHANGED << config, config_file, report_data, task_history, running,
                    shutdown_flag, jobs, now, pending, collab, history_file, ticks,
                    faults, all_entries, flush_log, sig, due_tick, ran_tick,
                    job_runs, exit_cause, registered_at >>

\* except Exception in the loop body: back off unless shutdown was requested
LoopExcept ==
    /\ pc = "except"
    /\ pc' = IF ~shutdown_flag THEN "backoff" ELSE "loop"
    /\ UNCHANGED << config, config_file, report_data, task_history, running, shutdown_flag, jobs, now, pending,
                    collab, history_file, ticks, faults, all_entries,
                    flush_log, sig, due_tick, ran_tick,
                    job_runs, exit_cause, registered_at >>

\* time.sleep(10)
Backoff ==
    /\ pc = "backoff"
    /\ now' = now + BackoffSeconds
    /\ pc' = "loop"
    /\ UNCHANGED << config, config_file, report_data, task_history, running, shutdown_flag, jobs, pending,
                    collab, history_file, ticks, faults, all_entries,
                    flush_log, sig, due_tick, ran_tick,
                    job_runs, exit_cause, registered_at >>

\* a teardown that saves only under the periodic condition
Finally_SaveIfDue ==
    /\ pc = "finally"
    /\ IF PeriodicFlushDue(task_history)
       THEN /\ history_file' = save_task_history(task_history, history_file, "ok")
            /\ flush_log' = Flushed("teardown", "ok")
       ELSE UNCHANGED << history_file, flush_log >>
    /\ jobs' = << >>
    /\ pc' = "stopped"
    /\ UNCHANGED << config, config_file, report_data, task_history, running, shutdown_flag, now, pending, collab,
                    ticks, faults, all_entries, sig, due_tick, ran_tick, job_runs,
                    exit_cause, registered_at >>

\* finally: self.save_task_history(); schedule.clear()
Finally ==
    /\ pc = "finally"
    /\ \E res \in FlushResults :
          /\ res # "ok" => faults < MaxFaults
          /\ faults' = IF res # "ok" THEN faults + 1 ELSE faults
          /\ history_file' = save_task_history(task_history, history_file, res)
          /\ flush_log' = Flushed("teardown", res)
    /\ jobs' = << >>
    /\ pc' = "stopped"
    /\ UNCHANGED << config, config_file, report_data, task_history, running, shutdown_flag, now, pending, collab,
                    ticks, all_entries, sig, due_tick, ran_tick,
                    job_runs, exit_cause, registered_at >>

-----------------------------------------------------------------------------
(* The environment of the loop *)

Requested(by) ==
    IF sig = NoSig
    THEN [pc |-> pc, len |-> Len(task_history), flushes |-> Len(flush_log), by |-> by]
    ELSE sig

\* a handler that only logs the signal
signal_handler_LogOnly ==
    /\ pc \notin {"start", "exited", "stopped"}
    /\ ~shutdown_flag \/ running
    /\ sig' = Requested("signal")
    /\ UNCHANGED << config, config_file, report_data, task_history, running, shutdown_flag, jobs, now,
                    pc, pending, collab, history_file, ticks, faults, all_entries,
                    flush_log, due_tick, ran_tick, job_runs, exit_cause, registered_at >>

\* signal_handler, run on SIGINT or SIGTERM between two steps of the loop (a
\* signal that finds the flag set and running false changes nothing)
signal_handler ==
    /\ pc \notin {"start", "exited", "stopped"}
    /\ ~shutdown_flag \/ running
    /\ shutdown_flag' = TRUE
    /\ running' = FALSE
    /\ sig' = Requested("signal")
    /\ UNCHANGED << config, config_file, report_data, task_history, jobs, now, pc, pending, collab,
                    history_file, ticks, faults, all_entries, flush_log, due_tick,
                    ran_tick,
                    job_runs, exit_cause, registered_at >>

\* shutdown_flag.set() by other code of the process
SetShutdownFlag ==
    /\ pc \notin {"exited", "stopped"}
    /\ ~shutdown_flag
    /\ shutdown_flag' = TRUE
    /\ sig' = Requested("program")
    /\ UNCHANGED << config, config_file, report_data, task_history, running, jobs, now, pc, pending, collab,
                    history_file, ticks, faults, all_entries, flush_log,
                    due_tick, ran_tick,
                    job_runs, exit_cause, registered_at >>

\* KeyboardInterrupt raised in the loop's thread while it runs a job or sleeps;
\* it is no Exception, so only the outer handler of run_scheduler catches it
KeyboardInterruptRaised ==
    /\ pc \in {"in_job", "sleep"}
    /\ sig' = Requested("interrupt")
    /\ pending' = << >>
    /\ collab' = NoCollab
    /\ pc' = "finally"
    /\ exit_cause' = "interrupt"
    /\ UNCHANGED << config, config_file, report_data, task_history, running, shutdown_flag, jobs, now,
                    history_file, ticks, faults, all_entries, flush_log, due_tick,
                    ran_tick,
                    job_runs, registered_at >>

Next ==
    \/ RunSchedulerStart
    \/ SetupRaises
    \/ LoopCheck
    \/ RunPending
    \/ RunPendingRaises
    \/ RunJob
    \/ JobReturns
    \/ RunPendingReturns
    \/ time_sleep
    \/ SleepRaises
    \/ FlushCheck
    \/ LoopExcept
    \/ Backoff
    \/ Finally
    \/ signal_handler
    \/ SetShutdownFlag
    \/ KeyboardInterruptRaised

Spec == Init /\ [][Next]_vars

\* the files start_scheduler is tried on: every kind without a usable mapping, the
\* empty mapping with a check interval of one hour, and a mapping with a history
\* file of its own, a weekly e-mail report and no known scraping cadence
StartFiles ==
    {[kind |-> k, content |-> EmptyConfig] : k \in FileKinds \ {"mapping"}}
    \cup {MappingFile(Config(Absent, Absent, Absent, Absent, HourSeconds, FALSE)),
          MappingFile([Config("monthly", Absent, Absent, "weekly", AbsentInt, FALSE)
                         EXCEPT !.history_file = "runs.json"])}

\* the process at the call of start_scheduler, 07:30 of day 0
InitStart ==
    /\ config_file \in StartFiles
    /\ config = Unconstructed
    /\ task_history = << >>
    /\ all_entries = << >>
    /\ running = FALSE
    /\ shutdown_flag = FALSE
    /\ jobs = << >>
    /\ now = 7 * HourSeconds + 30 * MinuteSeconds
    /\ pc = "start"
    /\ pending = << >>
    /\ collab = NoCollab
    /\ history_file = NoFile
    /\ ticks = 0
    /\ faults = 0
    /\ flush_log = << >>
    /\ sig = NoSig
    /\ due_tick = << >>
    /\ ran_tick = << >>
    /\ job_runs = 0
    /\ exit_cause = "none"
    /\ registered_at = Never
    /\ report_data = NoReport

NextStart == Construct \/ Next

SpecStart == InitStart /\ [][NextStart]_vars

SpecLong == InitLong /\ [][Next]_vars

SpecCadence == InitCadence /\ [][Next]_vars

\* the steps of the thread that runs run_scheduler when nothing fails: each of
\* them (a job, a sleep, a file write) ends
LoopStep ==
    \/ RunSchedulerStart
    \/ LoopCheck
    \/ RunPending
    \/ RunJob
    \/ JobReturns
    \/ RunPendingReturns
    \/ time_sleep
    \/ FlushCheck
    \/ LoopExcept
    \/ Backoff
    \/ Finally

\* the default schedule checked every hour from 07:30, the e-mail account not
\* configured
InitLive ==
    InitWith(Config(Absent, Absent, Absent, Absent, HourSeconds, FALSE),
             7 * HourSeconds + 30 * MinuteSeconds, << >>)

SpecLive == InitLive /\ [][Next]_vars /\ WF_vars(LoopStep)

-----------------------------------------------------------------------------
(* Properties *)

PeriodicFlushes == {i \in 1..Len(flush_log) : flush_log[i].by = "periodic"}

\* entries recorded by this run of the loop (the earlier ones are stamped
\* within the first minutes of day 0)
RecordedInRun(m) == all_entries[m].timestamp >= HourSeconds

\* the save_task_history calls made since the first shutdown request
FlushesSinceRequest == SubSeq(flush_log, sig.flushes + 1, Len(flush_log))

SignalInSleep == sig.pc = "sleep" /\ sig.by = "signal"

\* C1: the in-memory history never holds more than 100 entries, whatever has
\* been recorded.
C1_HistoryBounded == Len(task_history) <= HistoryCap

C1_Witness ==
    /\ ran_tick # << >>
    /\ Len(all_entries) > HistoryCap
    /\ Len(task_history) = HistoryCap

\* C2 as stated: after N job executions the history holds min(N, 100) entries,
\* and they are the last 100 recorded, in order.
C2_Original ==
    /\ Len(task_history) = Min(job_runs, HistoryCap)
    /\ task_history = LastN(all_entries, HistoryCap)

\* C2 amended: after N recorded entries (a job execution may record several)
\* the history holds min(N, 100) entries, and they are the last 100 recorded,
\* in the order recorded.
C2_LastHundredRecorded ==
    /\ Len(task_history) = Min(Len(all_entries), HistoryCap)
    /\ task_history = LastN(all_entries, HistoryCap)

C2_Witness ==
    /\ pc = "sleep"
    /\ Len(all_entries) > HistoryCap + 1
    /\ job_runs < Len(all_entries)
    /\ task_history[1] # all_entries[1]

\* C3: the loop flushes exactly once for the 50th, 100th, 150th ... entry ever
\* recorded: every periodic flush is made at a positive multiple of 50 recorded
\* entries, no two at the same count, and none is missing once the tick is over.
C3_FlushPerFiftyRecorded ==
    /\ \A i \in PeriodicFlushes :
          flush_log[i].recorded % FlushEvery = 0 /\ flush_log[i].recorded > 0
    /\ \A i, j \in PeriodicFlushes :
          i # j => flush_log[i].recorded # flush_log[j].recorded
    /\ pc = "loop" =>
          \A m \in 1..Len(all_entries) :
              (m % FlushEvery = 0 /\ RecordedInRun(m)) =>
                  \E i \in PeriodicFlushes : flush_log[i].recorded = m

\* C4: once the shutdown flag is set the loop leaves the inter-tick sleep without
\* letting the rest of the check interval pass.
C4_SleepInterruptible ==
    [][(pc = "sleep" /\ shutdown_flag /\ pc' # "sleep") => now' = now]_vars

\* C5 as stated: a signal that arrives during the sleep is followed by exactly
\* one flush before STOPPED, whatever the ledger length.
C5_Original ==
    (pc = "stopped" /\ SignalInSleep) => Len(FlushesSinceRequest) = 1

\* C5 amended: a signal that arrives during the sleep is followed by exactly one
\* teardown flush, the last call before STOPPED; a periodic flush precedes it
\* only when the ledger length at the signal is a positive multiple of 50, and
\* always does so then if nothing fails and the loop exits by its condition.
C5_OneTeardownFlush ==
    (pc = "stopped" /\ SignalInSleep) =>
        LET post == FlushesSinceRequest
            periodic_due == sig.len % FlushEvery = 0 /\ sig.len > 0
        IN  /\ Len(post) \in {1, 2}
            /\ post[Len(post)].by = "teardown"
            /\ Len(post) = 2 => (post[1].by = "periodic" /\ periodic_due)
            /\ (periodic_due /\ faults = 0 /\ exit_cause = "loop_exit") => Len(post) = 2

C5_Witness ==
    /\ pc = "stopped"
    /\ SignalInSleep
    /\ sig.len = HistoryCap
    /\ Len(FlushesSinceRequest) = 2

\* C6: a job whose collaborator raises records exactly one ERROR entry carrying
\* the error text and returns to run_pending, which goes on with the other due
\* jobs: when run_pending is over every job found due has run.
C6_JobErrorIsolated ==
    /\ [][(pc = "in_job" /\ collab.kind = "raise" /\ job_runs' # job_runs) =>
            LET e == all_entries'[Len(all_entries')]
            IN  /\ Len(all_entries') = Len(all_entries) + 1
                /\ e.task = jobs[Head(pending)].task
                /\ e.status = "ERROR"
                /\ e.details.err = collab.err
                /\ task_history' = LastN(Append(task_history, e), HistoryCap)
                /\ pc' = "run_pending"
                /\ pending' = Tail(pending)
                /\ running' = running
                /\ exit_cause' = "none"]_vars
    /\ [](pc = "sleep" => ran_tick = due_tick)

C6_Witness ==
    /\ pc = "sleep"
    /\ Len(due_tick) >= 2
    /\ ran_tick = due_tick
    /\ \E i \in 1..Len(task_history) :
          task_history[i].status = "ERROR" /\ task_history[i].task = due_tick[1]

\* C7: an exception of the loop machinery is caught; with the shutdown flag unset
\* the loop waits 10 seconds and goes back to the loop condition; and the loop is
\* left (setup having succeeded) only after a shutdown request.
C7_LoopSurvivesException ==
    /\ [][(pc = "except" /\ ~shutdown_flag /\ pc' # pc) => pc' = "backoff"]_vars
    /\ [][(pc = "backoff" /\ pc' # pc) =>
            (pc' = "loop" /\ now' = now + BackoffSeconds)]_vars
    /\ []((pc \in {"finally", "stopped"} /\ exit_cause # "setup_error") =>
            (shutdown_flag \/ sig # NoSig))

C7_Witness ==
    /\ pc = "tick"
    /\ ticks >= 2
    /\ ~shutdown_flag
    /\ sig = NoSig
    /\ now = registered_at + BackoffSeconds

\* C8: whenever run_scheduler has returned, the registry is empty and the last
\* save_task_history call is the teardown's, made on the final ledger.
C8_TeardownFlushAndClear ==
    pc = "stopped" =>
        /\ jobs = << >>
        /\ flush_log # << >>
        /\ LET f == flush_log[Len(flush_log)]
           IN  /\ f.by = "teardown"
               /\ f.len = Len(task_history)
               /\ f.recorded = Len(all_entries)

C8_Witness ==
    /\ pc = "stopped"
    /\ exit_cause = "interrupt"
    /\ task_history # << >>
    /\ Len(task_history) % FlushEvery # 0

\* C9: an unrecognized cadence name leaves the slot registered with its default
\* rule: hourly, every 30 minutes, daily at 02:00, daily at 08:00.
Unrecognized(c, key, names) == c[key] # Absent /\ c[key] \notin names

Registered(task, period, at) ==
    \E i \in 1..Len(jobs) :
        jobs[i].task = task /\ jobs[i].period = period /\ jobs[i].at = at

SetupDone ==
    pc \notin {"start", "exited", "constructed", "stopped"} /\ exit_cause # "setup_error"

C9_UnknownFallsBack ==
    SetupDone =>
        /\ Unrecognized(config, "scraping_schedule", {"hourly", "daily", "weekly"})
              => Registered("web_scraping", HourSeconds, NoAt)
        /\ Unrecognized(config, "monitoring_schedule",
                        {"every_15_minutes", "every_30_minutes", "hourly"})
              => Registered("system_monitoring", 30 * MinuteSeconds, NoAt)
        /\ Unrecognized(config, "organization_schedule", {"daily", "weekly"})
              => Registered("file_organization", DaySeconds, 2 * HourSeconds)
        /\ Unrecognized(config, "email_schedule", {"daily", "weekly"})
              => Registered("email_report", DaySeconds, 8 * HourSeconds)

\* the first instant a rule registered at t0 is due: one period later, or the
\* next time the clock shows its at-time
FirstDue(job, t0) ==
    IF job.at = NoAt THEN t0 + job.period
    ELSE IF job.at > TimeOfDay(t0) THEN (t0 - TimeOfDay(t0)) + job.at
    ELSE (t0 - TimeOfDay(t0)) + DaySeconds + job.at

IsPending(i) == \E k \in 1..Len(pending) : pending[k] = i

DueCheckJustMade == pc = "run_pending" /\ ran_tick = << >>

\* C10 as stated: a rule that has never fired is found due by every due-check, and
\* the first tick runs every registered job.
C10_Original ==
    /\ DueCheckJustMade =>
          \A i \in 1..Len(jobs) : jobs[i].last_run = Never => IsPending(i)
    /\ (pc = "sleep" /\ ticks = 1) => Len(ran_tick) = Len(jobs)

\* C10 amended: a rule that has never fired is found due exactly from its first
\* scheduled run on (one period after registration, or the next occurrence of its
\* at-time), so the first tick, made at the registration instant, finds no job
\* due and runs none.
C10_NeverFiredDueFromFirstRun ==
    /\ DueCheckJustMade =>
          \A i \in 1..Len(jobs) :
              jobs[i].last_run = Never =>
                  (IsPending(i) <=> now >= FirstDue(jobs[i], registered_at))
    /\ ticks = 1 => (due_tick = << >> /\ ran_tick = << >> /\ all_entries = << >>)

C10_Witness ==
    /\ DueCheckJustMade
    /\ pending # << >>
    /\ Len(pending) < Len(jobs)
    /\ \A i \in 1..Len(jobs) : jobs[i].last_run = Never

\* the rule whose job function is executing
RunningJob == jobs[Head(pending)]

IsDaily(job) == job.at # NoAt /\ job.period = DaySeconds

\* the rule last fired at its at-time of the day before the current one
FiredYesterdayAtTime(job) ==
    job.last_run = (Day(now) - 1) * DaySeconds + job.at

\* the rule last fired on the current day, at its at-time or later
FiredTodayFromAtTime(job) ==
    /\ job.last_run # Never
    /\ Day(job.last_run) = Day(now)
    /\ TimeOfDay(job.last_run) >= job.at

\* a daily rule that last fired at h:m of the previous day is due today exactly
\* from h:m on, and one that has fired today at or after h:m is not due again today
DailyDueFromAtTime ==
    DueCheckJustMade =>
        \A i \in 1..Len(jobs) :
            IsDaily(jobs[i]) =>
                /\ FiredYesterdayAtTime(jobs[i]) =>
                      (IsPending(i) <=> TimeOfDay(now) >= jobs[i].at)
                /\ FiredTodayFromAtTime(jobs[i]) => ~IsPending(i)

\* C11 as stated: a daily rule never fires twice on one calendar day; with
\* last-fired = previous day h:m it is due today exactly from h:m on, and once
\* fired today it is not due again that day.
C11_Original ==
    /\ DailyDueFromAtTime
    /\ (pc = "in_job" /\ IsDaily(RunningJob) /\ RunningJob.last_run # Never) =>
          Day(RunningJob.last_run) < Day(now)

\* C11 amended: with last-fired = previous day h:m a daily rule is due today
\* exactly from h:m on, and once fired today at or after h:m it is not due again
\* that day; it fires a second time on one calendar day only when the first fire
\* of that day came before h:m (a trigger of an earlier day served late).
C11_DailyOncePerTrigger ==
    /\ DailyDueFromAtTime
    /\ (pc = "in_job" /\ IsDaily(RunningJob) /\ RunningJob.last_run # Never
            /\ Day(RunningJob.last_run) = Day(now)) =>
          (TimeOfDay(RunningJob.last_run) < RunningJob.at
             /\ RunningJob.at <= TimeOfDay(now))

\* the rule fired at h:m of day 1 is found due at h:m of day 2, after a check
\* earlier on day 2
C11_Witness ==
    /\ DueCheckJustMade
    /\ Len(jobs) = 1
    /\ IsDaily(jobs[1])
    /\ FiredYesterdayAtTime(jobs[1])
    /\ TimeOfDay(now) = jobs[1].at
    /\ IsPending(1)
    /\ ticks >= 6

IsEveryNMinutes(job) ==
    job.at = NoAt /\ job.period \in {15 * MinuteSeconds, 30 * MinuteSeconds}

\* C12: an every-15-minutes or every-30-minutes rule that has fired is found due
\* by a due-check exactly when its 15 (30) minutes have elapsed since the last
\* fire; being due it is run by that same run_pending.
C12_EveryNMinutesDue ==
    /\ DueCheckJustMade =>
          \A i \in 1..Len(jobs) :
              (IsEveryNMinutes(jobs[i]) /\ jobs[i].last_run # Never) =>
                  (IsPending(i) <=> now - jobs[i].last_run >= jobs[i].period)
    /\ pc = "sleep" =>
          \A i \in 1..Len(jobs) :
              (IsEveryNMinutes(jobs[i]) /\ jobs[i].last_run # Never) =>
                  now - jobs[i].last_run < jobs[i].period

\* a rule that fired 21 minutes after registration is found due again at the
\* first check 15 minutes later or more (checks come every 7 minutes)
C12_Witness ==
    /\ DueCheckJustMade
    /\ Len(jobs) = 1
    /\ IsEveryNMinutes(jobs[1])
    /\ jobs[1].last_run # Never
    /\ now - jobs[1].last_run > jobs[1].period
    /\ IsPending(1)

\* the entries of a sequence with a given status and details text
WithStatus(es, status, fmt) ==
    {k \in 1..Len(es) : es[k].status = status /\ es[k].details.fmt = fmt}

\* the entries the step has recorded
NewEntries == SubSeq(all_entries', Len(all_entries) + 1, Len(all_entries'))

\* C13: a monitoring job that got a sample records one WARNING iff cpu > 80, one
\* WARNING iff memory > 85, one CRITICAL iff disk > 90, nothing for a value at its
\* threshold, and one SUCCESS entry last; the ledger gets exactly these entries.
C13_ThresholdEntries ==
    [][(pc = "in_job" /\ collab.kind = "stats" /\ job_runs' # job_runs) =>
          LET new == NewEntries
              one(c) == IF c THEN 1 ELSE 0
          IN  /\ Cardinality(WithStatus(new, "WARNING", "High CPU usage: {cpu}%"))
                    = one(collab.cpu > 80)
              /\ Cardinality(WithStatus(new, "WARNING", "High memory usage: {mem}%"))
                    = one(collab.mem > 85)
              /\ Cardinality(WithStatus(new, "CRITICAL", "High disk usage: {disk}%"))
                    = one(collab.disk > 90)
              /\ Len(new) = 1 + one(collab.cpu > 80) + one(collab.mem > 85)
                               + one(collab.disk > 90)
              /\ new[Len(new)].status = "SUCCESS"
              /\ \A k \in 1..Len(new) : new[k].task = "system_monitoring"
              /\ task_history' = LastN(task_history \o new, HistoryCap)]_vars

\* a sample with cpu and disk above and memory exactly at its threshold has been
\* recorded: WARNING, CRITICAL, SUCCESS
C13_Witness ==
    /\ pc = "run_pending"
    /\ Len(task_history) >= 3
    /\ LET n == Len(task_history)
       IN  /\ task_history[n].status = "SUCCESS"
           /\ task_history[n].details.vals = << 81, 85, 91 >>
           /\ task_history[n - 1].status = "CRITICAL"
           /\ task_history[n - 2].status = "WARNING"
           /\ n >= 4 => task_history[n - 3].timestamp < task_history[n].timestamp

\* the email job has generated its report and is sending it
ReportGenerated ==
    pc = "in_job" /\ RunningJob.task = "email_report" /\ collab.kind # "not_called"

\* the lines of a report that show an entry, as <<timestamp, task, status>>
ListedEntries(r) ==
    LET ls == SelectSeq(r.lines, LAMBDA l : l.kind = "entry")
    IN  [k \in 1..Len(ls) |-> << ls[k].timestamp, ls[k].task, ls[k].status >>]

\* C15: the report gives total = entries in the ledger, success = entries with
\* status SUCCESS, failed = entries with status FAILED or ERROR (so success +
\* failed <= total), and lists the last min(10, total) entries in ledger order.
C15_ReportCounts ==
    ReportGenerated =>
        LET h == task_history
            n == Min(10, Len(h))
        IN  /\ report_data.total = Len(h)
            /\ report_data.successful
                 = Cardinality({k \in 1..Len(h) : h[k].status = "SUCCESS"})
            /\ report_data.failed
                 = Cardinality({k \in 1..Len(h) : h[k].status = "FAILED"
                                                   \/ h[k].status = "ERROR"})
            /\ report_data.successful + report_data.failed <= report_data.total
            /\ ListedEntries(report_data)
                 = [k \in 1..n |-> << h[Len(h) - n + k].timestamp,
                                      h[Len(h) - n + k].task,
                                      h[Len(h) - n + k].status >>]

\* a report on a ledger of more than 10 entries that holds WARNING and CRITICAL
\* entries, counted in neither figure
C15_Witness ==
    /\ ReportGenerated
    /\ report_data.total > 10
    /\ report_data.successful + report_data.failed < report_data.total
    /\ \E k \in 1..Len(task_history) : task_history[k].status = "CRITICAL"
    /\ Len(report_data.lines) = 20

\* the last save_task_history call
LastFlush == flush_log[Len(flush_log)]

\* the last save_task_history call succeeded and nothing was recorded since
JustFlushed ==
    /\ flush_log # << >>
    /\ LastFlush.result = "ok"
    /\ LastFlush.recorded = Len(all_entries)

FailedFlushStep ==
    /\ Len(flush_log') = Len(flush_log) + 1
    /\ flush_log'[Len(flush_log')].result # "ok"

\* C17: a flush that fails returns normally and changes nothing in memory: the
\* ledger, the flags and the registry of a running loop are as before; after a
\* periodic flush the loop is back at its condition, from where it starts the
\* next tick unless shutdown was requested, and after the teardown flush
\* run_scheduler returns.
C17_FailedFlushNotFatal ==
    /\ [][FailedFlushStep =>
            /\ task_history' = task_history
            /\ running' = running
            /\ shutdown_flag' = shutdown_flag
            /\ exit_cause' = exit_cause
            /\ pc = "flush_check" => (pc' = "loop" /\ jobs' = jobs)
            /\ pc = "finally" => pc' = "stopped"]_vars
    /\ [][(pc = "loop" /\ ~shutdown_flag /\ running /\ pc' # pc) => pc' = "tick"]_vars

\* the tick after a periodic flush that failed has begun, the ledger still
\* holding its 100 entries and the file not written
C17_Witness ==
    /\ pc = "tick"
    /\ flush_log # << >>
    /\ LastFlush.by = "periodic"
    /\ LastFlush.result = "write_fails"
    /\ Len(task_history) = HistoryCap
    /\ history_file.state = "partial"

\* the ledger as it was when save_task_history call f was made
LedgerAsOf(f) == LastN(SubSeq(all_entries, 1, f.recorded), HistoryCap)

SuccessfulFlushes == {i \in 1..Len(flush_log) : flush_log[i].result = "ok"}

\* the save_task_history calls that got as far as opening the file
OpeningFlushes == {i \in 1..Len(flush_log) : flush_log[i].result # "open_fails"}

Latest(S) == CHOOSE i \in S : \A k \in S : k <= i

\* the file never holds more than 100 entries, and after a successful teardown
\* flush it holds the final ledger
PersistedCapAndFinal ==
    /\ Len(history_file.entries) <= 100
    /\ (pc = "stopped" /\ LastFlush.result = "ok") =>
          json_load(history_file.entries) = task_history

\* C18 as stated: the history file always holds the ledger as of the last
\* successful flush, never more than 100 entries, and the final ledger once
\* stopped after a successful teardown flush.
C18_Original ==
    /\ SuccessfulFlushes # {} =>
          /\ history_file.state = "written"
          /\ json_load(history_file.entries)
               = LedgerAsOf(flush_log[Latest(SuccessfulFlushes)])
    /\ PersistedCapAndFinal

\* C18 amended: the history file holds what the last flush that opened it left:
\* the ledger as of that flush if it succeeded, a truncated file if it failed
\* while writing (the snapshot of an earlier successful flush is then lost);
\* never more than 100 entries; and the final ledger once stopped after a
\* successful teardown flush.
C18_PersistedIsLastWrite ==
    /\ OpeningFlushes = {} => history_file = NoFile
    /\ OpeningFlushes # {} =>
          LET f == flush_log[Latest(OpeningFlushes)]
          IN  IF f.result = "ok"
              THEN /\ history_file.state = "written"
                   /\ json_load(history_file.entries) = LedgerAsOf(f)
              ELSE history_file = [state |-> "partial", entries |-> << >>]
    /\ PersistedCapAndFinal

\* stopped after two successful flushes of a ledger at its cap: the file holds
\* the 100 entries of the final ledger, not both dumps
C18_Witness ==
    /\ pc = "stopped"
    /\ Len(flush_log) = 2
    /\ SuccessfulFlushes = {1, 2}
    /\ Len(all_entries) > HistoryCap
    /\ Len(history_file.entries) = HistoryCap
    /\ json_load(history_file.entries) = task_history

\* the tasks of a sequence of entries, runs of one task taken once
RECURSIVE TaskRuns(_)
TaskRuns(es) ==
    IF es = << >> THEN << >>
    ELSE IF Len(es) >= 2 /\ es[1].task = es[2].task THEN TaskRuns(Tail(es))
    ELSE << es[1].task >> \o TaskRuns(Tail(es))

\* the entries of the ledger recorded in the current tick: those stamped with
\* the clock of its run_pending (the clock moves on between two ticks)
TickEntries == SelectSeq(task_history, LAMBDA e : e.timestamp = now)

InRunPending == pc \in {"run_pending", "in_job", "sleep"}

\* C19: in the ledger the entries of an earlier tick precede those of a later
\* tick, and within a tick the entries stand job by job in the order in which
\* the jobs completed.
C19_AppendOrder ==
    /\ \A i, j \in 1..Len(task_history) :
          i < j => task_history[i].timestamp <= task_history[j].timestamp
    /\ InRunPending => TaskRuns(TickEntries) = ran_tick

\* the second tick in which two jobs ran is over: the ledger holds the entries of
\* an earlier tick, then those of the first job and those of the second
C19_Witness ==
    /\ pc = "sleep"
    /\ Len(ran_tick) = 2
    /\ ran_tick[1] # ran_tick[2]
    /\ Len(task_history) >= 4
    /\ task_history[1].timestamp < now
    /\ task_history[Len(task_history)].task = ran_tick[2]
    /\ task_history[Len(task_history) - 1].task = ran_tick[1]

\* C20: run_pending runs the jobs found due one after the other, each once: the
\* jobs that have returned are the first of those found due, in that order, the
\* job executing (if any) is the next, the others have not started, and no job
\* is in the list twice.
C20_JobsRunOneByOne ==
    /\ InRunPending =>
          /\ ran_tick = SubSeq(due_tick, 1, Len(ran_tick))
          /\ Len(ran_tick) + Len(pending) = Len(due_tick)
          /\ \A k \in 1..Len(pending) :
                jobs[pending[k]].task = due_tick[Len(ran_tick) + k]
          /\ \A i, j \in 1..Len(due_tick) : i # j => due_tick[i] # due_tick[j]
    /\ pc = "in_job" => (pending # << >> /\ collab # NoCollab)
    /\ pc # "in_job" => collab = NoCollab
    /\ pc = "sleep" => pending = << >>

\* the second of three due jobs is executing: the first has returned, the third
\* has not started
C20_Witness ==
    /\ pc = "in_job"
    /\ Len(due_tick) = 3
    /\ Len(ran_tick) = 1
    /\ Len(pending) = 2
    /\ RunningJob.task = due_tick[2]

\* C21 as stated: no due-check and no job execution begins in a state where the
\* shutdown flag is set.
C21_Original ==
    [][((pc = "tick" /\ pc' = "run_pending") \/ (pc = "run_pending" /\ pc' = "in_job"))
          => ~shutdown_flag]_vars

\* C21 amended: the flag is tested at the loop condition before each tick: a tick
\* begins only from a test that found the flag unset, and a test that finds it
\* set leaves the loop for the teardown; a request that arrives after the test
\* does not stop the due-check nor the jobs of the tick that has begun.
C21_FlagTestedBeforeTick ==
    /\ [][(pc # "tick" /\ pc' = "tick") => (pc = "loop" /\ ~shutdown_flag)]_vars
    /\ [][(pc = "loop" /\ shutdown_flag /\ pc' # pc) =>
              (pc' = "finally" /\ ticks' = ticks /\ job_runs' = job_runs)]_vars
    /\ [][(pc = "tick" /\ shutdown_flag /\ pc' # pc) =>
              pc' \in {"run_pending", "except"}]_vars

\* the flag was set between the test and the due-check, and a job of that tick
\* is executing
C21_Witness ==
    /\ pc = "in_job"
    /\ shutdown_flag
    /\ sig.pc = "tick"

\* run_scheduler has returned after its teardown: the rules are cleared and the
\* last save_task_history call is the teardown's, made on the final ledger, which
\* the file holds if the write succeeded
GracefullyStopped ==
    /\ pc = "stopped"
    /\ jobs = << >>
    /\ flush_log # << >>
    /\ LastFlush.by = "teardown"
    /\ LastFlush.recorded = Len(all_entries)
    /\ LastFlush.result = "ok" => json_load(history_file.entries) = task_history

\* C22: a signal delivered while run_scheduler runs leads to its return after the
\* teardown (flush call, rules cleared), every job, sleep and write ending; the
\* handler itself only sets the shutdown flag and running = False.
C22_SignalLeadsToStopped ==
    /\ (sig.by = "signal" /\ sig.pc # "constructed") ~> GracefullyStopped
    /\ [][(running /\ ~running') =>
              /\ shutdown_flag'
              /\ UNCHANGED << config, task_history, jobs, now, pc, pending, collab,
                              history_file, all_entries, flush_log, job_runs,
                              exit_cause, report_data >>]_vars

\* stopped after a signal that arrived while a job was executing
C22_Witness ==
    /\ GracefullyStopped
    /\ sig.by = "signal"
    /\ sig.pc = "in_job"
    /\ exit_cause = "loop_exit"
    /\ task_history # << >>

\* C23: when scrape_site fails with a detail, the web_scraping entry has status
\* FAILED and carries that detail, and run_pending goes on with the next due job.
C23_FailureDetailKept ==
    [][(pc = "in_job" /\ RunningJob.task = "web_scraping" /\ collab.kind = "none"
          /\ job_runs' # job_runs) =>
            LET e == all_entries'[Len(all_entries')]
            IN  /\ Len(all_entries') = Len(all_entries) + 1
                /\ e.task = "web_scraping"
                /\ e.status = "FAILED"
                /\ e.details.err = collab.err
                /\ pc' = "run_pending"
                /\ pending' = Tail(pending)]_vars

\* C24: every job invocation, whatever its collaborator answered (data, nothing,
\* a missing module, an exception), returns to run_pending and has added at least
\* one entry to the ledger, every added entry carrying the job's name.
C24_EveryInvocationRecorded ==
    [][(pc = "in_job" /\ pc' # "finally" /\ pc' # pc) =>
          /\ pc' = "run_pending"
          /\ job_runs' = job_runs + 1
          /\ \E n \in 1..4 :
                /\ Len(task_history') = Min(Len(task_history) + n, HistoryCap)
                /\ \A k \in 0..(n - 1) :
                      LET e == task_history'[Len(task_history') - k]
                      IN  e.task = RunningJob.task /\ e.timestamp = now
                /\ LastN(task_history, HistoryCap - n)
                     = SubSeq(task_history', 1, Len(task_history') - n)]_vars

\* a tick in which three jobs ran on three kinds of path: a sample with
\* warnings, a skipped report, a scrape that raised
C24_Witness ==
    /\ pc = "sleep"
    /\ Len(ran_tick) = 3
    /\ \E i, j, k \in 1..Len(task_history) :
          /\ task_history[i].status = "CRITICAL"
          /\ task_history[j].status = "SKIPPED"
          /\ task_history[k].status = "ERROR" /\ task_history[k].task = "web_scraping"

\* the cadence an option value stands for, as <<period, at-time>>; an absent
\* option stands for the slot's default
Cadence(key, value) ==
    LET v == IF value # Absent THEN value
             ELSE IF key = "scraping_schedule" THEN "hourly"
             ELSE IF key = "monitoring_schedule" THEN "every_30_minutes"
             ELSE "daily"
    IN  IF v = "hourly" THEN << 3600, NoAt >>
        ELSE IF v = "weekly" THEN << 604800, NoAt >>
        ELSE IF v = "every_15_minutes" THEN << 900, NoAt >>
        ELSE IF v = "every_30_minutes" THEN << 1800, NoAt >>
        ELSE IF key = "scraping_schedule" THEN << 86400, 9 * 3600 >>
        ELSE IF key = "organization_schedule" THEN << 86400, 2 * 3600 >>
        ELSE << 86400, 8 * 3600 >>

SlotKeys ==
    << "scraping_schedule", "monitoring_schedule", "organization_schedule",
       "email_schedule" >>

SlotTasks == << "web_scraping", "system_monitoring", "file_organization", "email_report" >>

Recognized(c) == \A k \in 1..4 : c[SlotKeys[k]] # "monthly"

\* C25: after setup, with every cadence option absent or recognized, the
\* registry holds exactly one rule per job slot, in slot order, each with the
\* period and at-time of the configured cadence and not yet run; running is
\* true from the start on for as long as no shutdown was requested.
C25_StartRegistersAllJobs ==
    /\ (SetupDone /\ Recognized(config)) =>
          /\ Len(jobs) = 4
          /\ \A k \in 1..4 :
                /\ jobs[k].task = SlotTasks[k]
                /\ << jobs[k].period, jobs[k].at >> = Cadence(SlotKeys[k], config[SlotKeys[k]])
    /\ (SetupDone /\ ~shutdown_flag) => running

\* the loop has started with a weekly email report and the other slots at their
\* defaults
C25_Witness ==
    /\ pc = "tick"
    /\ running
    /\ config.email_schedule = "weekly"
    /\ Len(jobs) = 4
    /\ jobs[4].period = WeekSeconds
    /\ jobs[1].period = HourSeconds

\* built from a path that names no file or a file that is not YAML
BuiltWithoutFile == config_file.kind \in {"missing", "malformed"} /\ pc # "start"

\* C26: with a configuration file that is missing or cannot be parsed, the object
\* is built from the empty mapping and the process does not exit: every sleep
\* of the loop lasts 60 seconds, every flush names task_history.json, the rules
\* registered are the default ones (hourly scraping, monitoring every 30 minutes,
\* organization daily at 02:00, report daily at 08:00), and running is true once
\* run_scheduler has begun, for as long as no shutdown was requested.
C26_MissingConfigNotFatal ==
    /\ [](BuiltWithoutFile =>
            /\ pc # "exited"
            /\ config = EmptyConfig
            /\ \A i \in 1..Len(flush_log) : flush_log[i].file = "task_history.json"
            /\ SetupDone =>
                  /\ Len(jobs) = 4
                  /\ Registered("web_scraping", 3600, NoAt)
                  /\ Registered("system_monitoring", 1800, NoAt)
                  /\ Registered("file_organization", 86400, 7200)
                  /\ Registered("email_report", 86400, 28800)
            /\ (pc # "constructed" /\ ~shutdown_flag) => running)
    /\ [][(BuiltWithoutFile /\ pc = "sleep" /\ pc' = "flush_check") => now' = now + 60]_vars

\* run_scheduler has returned after a tick, the path naming a file that is not
\* YAML
C26_Witness ==
    /\ config_file.kind = "malformed"
    /\ pc = "stopped"
    /\ ticks > 0
    /\ exit_cause = "loop_exit"
    /\ Len(flush_log) > 0

\* C29: when building the TaskScheduler raises, the process exits with status 1
\* and no rule was registered, no tick started, no job run and nothing recorded;
\* the process exits that way from the construction only, never after a fault
\* inside run_scheduler.
C29_ConstructionFailureExits ==
    /\ (config_file.kind \in {"empty", "scalar", "unreadable"} /\ pc # "start") =>
          pc = "exited"
    /\ pc = "exited" =>
          /\ exit_cause = "construct_error"
          /\ ~running
          /\ jobs = << >> /\ registered_at = Never
          /\ ticks = 0 /\ job_runs = 0
          /\ all_entries = << >> /\ flush_log = << >>
          /\ faults = 0
    /\ (faults > 0 \/ exit_cause \in {"setup_error", "interrupt", "loop_exit"}) =>
          pc # "exited"

\* exited on an empty configuration file
C29_Witness ==
    /\ config_file.kind = "empty"
    /\ pc = "exited"
    /\ exit_cause = "construct_error"

\* C27: no step changes an entry that stays in the ledger: with a entries
\* recorded by the step, the entries of the ledger that the cap leaves room for
\* are found again, field for field and in the same order, right before the a
\* new ones.
C27_EntriesImmutable ==
    [][LET a == Len(all_entries') - Len(all_entries)
           kept == Min(Len(task_history), HistoryCap - a)
       IN  /\ a >= 0
           /\ Len(task_history') = kept + a
           /\ \A k \in 1..kept :
                 task_history'[k] = task_history[Len(task_history) - kept + k]]_vars

\* stopped by a signal after entries were recorded beyond the cap and flushed
C27_Witness ==
    /\ pc = "stopped"
    /\ sig.by = "signal"
    /\ Len(all_entries) > HistoryCap + 1
    /\ Len(flush_log) > 1

\* slots whose option is absent or names a cadence the slot knows
KnownSlots == {k \in 1..4 : config[SlotKeys[k]] # "monthly"}

\* C28: whatever the four options hold, names no slot knows included, setup can
\* complete from the constructed object without an error; once it has, the
\* registry holds the rules of the slots with a known cadence and nothing for the
\* others, and the loop can begin its first iteration.
C28_UnknownCadenceNoError ==
    /\ pc = "constructed" => ENABLED RunSchedulerStart
    /\ SetupDone =>
          /\ Len(jobs) = Cardinality(KnownSlots)
          /\ \A k \in KnownSlots : \E i \in 1..Len(jobs) : jobs[i].task = SlotTasks[k]
    /\ (pc = "loop" /\ ticks = 0 /\ running /\ ~shutdown_flag) => ENABLED LoopCheck

\* the first iteration has begun with no option naming a known cadence
C28_Witness ==
    /\ pc = "tick"
    /\ ticks = 1
    /\ KnownSlots = {}
    /\ jobs = << >>
    /\ exit_cause = "none"

\* the first shutdown request was a signal handled while a job was executing
SignalInJob == sig.by = "signal" /\ sig.pc = "in_job"

\* C30: a signal handled during a job leaves the job and the list of due rules
\* as they are; with the flag set run_pending still calls every remaining due
\* rule; when the loop then ends at its condition, every rule found due in that
\* tick has run and has its entry in the ledger, and the teardown flush is called
\* on the ledger holding them (a successful one leaves them in the file).
C30_CancelledAtTickBoundary ==
    /\ [][(pc = "in_job" /\ running /\ ~running') =>
              /\ pc' = "in_job"
              /\ UNCHANGED << pending, collab, task_history, jobs, due_tick, ran_tick >>]_vars
    /\ [][(shutdown_flag /\ pc = "run_pending" /\ pending # << >> /\ pc' # pc) =>
              /\ pc' = "in_job"
              /\ pending' = pending]_vars
    /\ []((SignalInJob /\ exit_cause = "loop_exit") =>
              /\ ran_tick = due_tick
              /\ \A k \in 1..Len(due_tick) :
                    \E i \in 1..Len(task_history) :
                        /\ task_history[i].task = due_tick[k]
                        /\ task_history[i].timestamp
                              = task_history[Len(task_history)].timestamp
              /\ pc = "stopped" =>
                    /\ LastFlush.by = "teardown"
                    /\ LastFlush.len = Len(task_history)
                    /\ LastFlush.recorded = Len(all_entries)
                    /\ LastFlush.result = "ok" =>
                          json_load(history_file.entries) = task_history)

\* stopped after a signal handled during a job of a tick in which, after the
\* signal, entries of two jobs were recorded
C30_Witness ==
    /\ pc = "stopped"
    /\ SignalInJob
    /\ exit_cause = "loop_exit"
    /\ Len(due_tick) >= 2
    /\ \E i, j \in (sig.len + 1)..Len(task_history) :
          task_history[i].task # task_history[j].task
    /\ LastFlush.result = "ok"

\* C31: once run_scheduler has returned, running is false, whatever ended the
\* loop (signal, flag set by the program, KeyboardInterrupt, setup exception).
C31_StoppedNotRunning == pc = "stopped" => ~running

\* shutdown was requested before run_scheduler began: before the object was built
\* or between its construction and the call
RequestedBeforeRun == sig # NoSig /\ sig.pc \in {"start", "constructed"}

\* C32: the shutdown flag, once set, stays set; a run_scheduler call that begins
\* with the flag set starts no tick, runs no job and records nothing, yet
\* registers the rules of the configured cadences, and returns after exactly one
\* flush call (the teardown one) with the registry empty.
C32_FlagNeverCleared ==
    /\ [][shutdown_flag => shutdown_flag']_vars
    /\ [](RequestedBeforeRun =>
            /\ shutdown_flag
            /\ ticks = 0 /\ job_runs = 0 /\ all_entries = << >>
            /\ (pc \in {"loop", "finally"} /\ exit_cause # "setup_error") =>
                  /\ Len(jobs) = Cardinality(KnownSlots)
                  /\ \A k \in KnownSlots :
                        \E i \in 1..Len(jobs) : jobs[i].task = SlotTasks[k]
                  /\ flush_log = << >>
            /\ pc = "stopped" =>
                  /\ registered_at # Never
                  /\ jobs = << >>
                  /\ Len(flush_log) = 1
                  /\ LastFlush.by = "teardown" /\ LastFlush.len = 0)

\* run_scheduler has returned on an object built after the program set the flag
C32_Witness ==
    /\ pc = "stopped"
    /\ sig.by = "program" /\ sig.pc = "start"
    /\ exit_cause = "loop_exit"
    /\ running
    /\ Len(flush_log) = 1

\* the place of an entry in what the monitoring job records for a sample
MonitoringRank(e) ==
    IF e.status = "WARNING" /\ e.details.fmt = "High CPU usage: {cpu}%" THEN 1
    ELSE IF e.status = "WARNING" /\ e.details.fmt = "High memory usage: {mem}%" THEN 2
    ELSE IF e.status = "CRITICAL" /\ e.details.fmt = "High disk usage: {disk}%" THEN 3
    ELSE IF e.status = "SUCCESS" THEN 4
    ELSE 0

\* C33: a monitoring job that returns has recorded between 1 and 4 entries, the
\* last k of the ledger; for a sample they stand in the order CPU WARNING,
\* memory WARNING, disk CRITICAL, SUCCESS (each at most once, SUCCESS last);
\* without stats the job records one FAILED entry and nothing else.
C33_MonitoringEntryOrder ==
    [][(pc = "in_job" /\ RunningJob.task = "system_monitoring" /\ job_runs' # job_runs) =>
          LET k == Len(all_entries') - Len(all_entries)
              new == LastN(task_history', k)
          IN  /\ k \in 1..4
              /\ Len(task_history') >= k
              /\ collab.kind = "stats" =>
                    /\ \A i \in 1..k : MonitoringRank(new[i]) > 0
                    /\ \A i, j \in 1..k :
                          i < j => MonitoringRank(new[i]) < MonitoringRank(new[j])
                    /\ MonitoringRank(new[k]) = 4
              /\ collab.kind = "none" =>
                    /\ k = 1
                    /\ new[1].status = "FAILED"
                    /\ new[1].details.fmt = "Could not get system stats"]_vars

\* a sample with all three values above their thresholds has been recorded as
\* four entries
C33_Witness ==
    /\ pc = "run_pending"
    /\ Len(task_history) >= 4
    /\ LET n == Len(task_history)
       IN  /\ << MonitoringRank(task_history[n - 3]), MonitoringRank(task_history[n - 2]),
                 MonitoringRank(task_history[n - 1]), MonitoringRank(task_history[n]) >>
                = << 1, 2, 3, 4 >>
           /\ task_history[n - 3].timestamp = task_history[n].timestamp

\* the step is a call of save_task_history
FlushStep == flush_log' # flush_log

\* the step is the e-mail job's call of generate_task_report
SummarizeStep ==
    /\ pc = "run_pending" /\ pc' = "in_job"
    /\ jobs[Head(pending)].task = "email_report"
    /\ collab'.kind # "not_called"

\* C34: a call of generate_task_report and a call of save_task_history, failed
\* or not, leave the ledger, running and the shutdown flag as they were, and the
\* rules too (after the teardown flush the rules are cleared by the statement
\* that follows it, schedule.clear()).
C34_SummarizeFlushFrame ==
    [][(FlushStep \/ SummarizeStep) =>
          /\ UNCHANGED << task_history, running, shutdown_flag >>
          /\ all_entries' = all_entries
          /\ (SummarizeStep \/ pc = "flush_check") => jobs' = jobs
          /\ pc = "finally" => jobs' = << >>]_vars

\* a periodic flush has failed and the loop goes on with its ledger and rules
C34_Witness ==
    /\ pc = "loop"
    /\ flush_log # << >>
    /\ LastFlush.by = "periodic" /\ LastFlush.result # "ok"
    /\ LastFlush.len = Len(task_history)
    /\ task_history # << >>
    /\ jobs # << >>
    /\ running /\ ~shutdown_flag

\* C35: an e-mail job that returns has run no other job and recorded exactly one
\* entry of its own.  With an incomplete account the entry is SKIPPED, send_email
\* was not called and no report was generated.  Otherwise the body handed to
\* send_email counts and lists the ledger as it stood at the call, without the
\* job's own entry; when send_email raised the entry is ERROR with the error's
\* text, else SUCCESS.
C35_EmailReportsLedgerBefore ==
    [][(pc = "in_job" /\ RunningJob.task = "email_report" /\ job_runs' # job_runs) =>
          LET e == task_history'[Len(task_history')]
          IN  /\ Len(all_entries') = Len(all_entries) + 1
              /\ Len(task_history') = Min(Len(task_history) + 1, HistoryCap)
              /\ e.task = "email_report" /\ e.timestamp = now
              /\ job_runs' = job_runs + 1
              /\ ran_tick' = Append(ran_tick, "email_report")
              /\ report_data' = report_data
              /\ ~config.email_complete =>
                    /\ collab.kind = "not_called"
                    /\ e.status = "SKIPPED"
                    /\ report_data = NoReport
              /\ config.email_complete =>
                    /\ collab.kind \in {"ok", "raise"}
                    /\ report_data.total = Len(task_history)
                    /\ ListedEntries(report_data)
                         = [k \in 1..Min(Len(task_history), ReportWindow) |->
                              LET x == LastN(task_history, ReportWindow)[k]
                              IN  << x.timestamp, x.task, x.status >>]
                    /\ e.status = IF collab.kind = "raise" THEN "ERROR" ELSE "SUCCESS"
                    /\ collab.kind = "raise" => e.details.err = collab.err]_vars

\* send_email has raised: the ledger ends with the job's ERROR entry, which the
\* report sent does not count
C35_Witness ==
    /\ pc = "run_pending"
    /\ task_history # << >>
    /\ LET e == task_history[Len(task_history)]
       IN  e.task = "email_report" /\ e.status = "ERROR" /\ e.timestamp = now
    /\ report_data.total = Len(task_history) - 1
    /\ report_data.total > 0

\* C36: the 10 second wait begins only from the except clause with the shutdown
\* flag unset; with the flag set the except clause goes straight back to the
\* loop condition, the clock unmoved, and the loop condition then ends the loop;
\* from the exception to the loop condition no flush is made, whatever the
\* length of the ledger.
C36_NoBackoffOnShutdown ==
    /\ [][(pc # "backoff" /\ pc' = "backoff") => (pc = "except" /\ ~shutdown_flag)]_vars
    /\ [][(pc = "except" /\ shutdown_flag /\ pc' # pc) =>
              (pc' = "loop" /\ now' = now)]_vars
    /\ [][(pc = "loop" /\ shutdown_flag /\ pc' # pc) =>
              (pc' = "finally" /\ ticks' = ticks)]_vars
    /\ [][(pc' = "except" \/ pc \in {"except", "backoff"}) =>
              (flush_log' = flush_log /\ history_file' = history_file
               /\ pc' # "flush_check")]_vars

\* an exception of the first tick was caught with the flag set: back at the loop
\* condition with no time passed, and the ledger, at a multiple of 50, not flushed
C36_Witness ==
    /\ pc = "loop"
    /\ ticks = 1
    /\ shutdown_flag
    /\ faults = 1
    /\ now = registered_at
    /\ PeriodicFlushDue(task_history)
    /\ flush_log = << >>

====
